---- MODULE Spec2Model ----
(***************************************************************************)
(* Model of candidate_generator.cpp: the candidate generation pipeline of  *)
(* main (base-word initialisation, generate_target_combinations,           *)
(* apply_leetspeak, output), the std::set that holds the candidates, and   *)
(* the helper is_printable.                                                *)
(*                                                                         *)
(* A std::string is a sequence of bytes (unsigned char values 0..255).     *)
(* A std::set<std::string> is the sequence of its members in iteration     *)
(* order; SetInsert keeps it ordered by std::less<std::string>.            *)
(***************************************************************************)
EXTENDS Integers, Sequences, FiniteSets, TLC

VARIABLES
    base_words,              \* main: lines of the base wordlist file
    target_info,             \* main: lines of the target info file (<<>> if none)
    generated_candidates,    \* main: the std::set of candidates
    current_candidates_vec,  \* main: the vector copied from the set before leetspeak
    gen_pos,                 \* generate_target_combinations: index of the next base word
    leet_pos,                \* apply_leetspeak: index of the next input word
    word,                    \* apply_leetspeak: the input word of the last iteration
    pass,                    \* number of apply_leetspeak calls started
    output,                  \* the lines written to stdout
    pc,                      \* position in main
    s,                       \* is_printable: the argument of a direct call
    ret                      \* is_printable: the value returned by a direct call

vars == <<base_words, target_info, generated_candidates, current_candidates_vec,
          gen_pos, leet_pos, word, pass, output, pc, s, ret>>

(***************************************************************************)
(* Bounds of the model.                                                    *)
(***************************************************************************)
MaxBase == 2

MaxInfo == 1

MaxStrLen == 3

(***************************************************************************)
(* Sample words the input files are drawn from.                            *)
(***************************************************************************)
blue == <<98, 108, 117, 101>>

acme == <<97, 99, 109, 101>>

Secret == <<83, 101, 99, 114, 101, 116>>

\* "xy": a word none of the leetspeak rules changes
xy == <<120, 121>>

\* "b<TAB>": a line with a control character
tabbed == <<98, 9>>

\* a line with a raw high byte (0xE9)
highbyte == <<233, 99>>

BaseVocab == {blue, Secret, xy, tabbed}

InfoVocab == {acme, highbyte}

SeqsUpTo(S, n) == UNION {[1..k -> S] : k \in 0..n}

\* bytes at and around the edges of the printable range, for direct calls
EdgeBytes == {31, 32, 126, 127, 233}

Args == SeqsUpTo(EdgeBytes, MaxStrLen)

SetOf(seq) == {seq[i] : i \in DOMAIN seq}

(***************************************************************************)
(* is_printable                                                            *)
(***************************************************************************)
\* bug variant: std::isgraph, which rejects the space
isgraph(c) == c > 32 /\ c <= 126

\* std::isprint on an unsigned char in the "C" locale: 0x20..0x7E
isprint(c) == c >= 32 /\ c <= 126

is_printable(str) == \A i \in DOMAIN str : isprint(str[i])

\* the gate the callers build from it: is_printable(w) && !w.empty()
usable_word(w) == is_printable(w) /\ w # <<>>

(***************************************************************************)
(* std::set<std::string>                                                   *)
(***************************************************************************)
\* std::less<std::string>: compare the common prefix byte by byte as
\* unsigned char, then the lengths
string_less(a, b) ==
    LET n == IF Len(a) < Len(b) THEN Len(a) ELSE Len(b)
    IN  \/ \E i \in 1..n : a[i] < b[i] /\ \A j \in 1..(i-1) : a[j] = b[j]
        \/ Len(a) < Len(b) /\ \A j \in 1..n : a[j] = b[j]

\* bug variant: an unordered container, keys kept in insertion order
SetInsertUnordered(cands, str) ==
    IF \E i \in DOMAIN cands : cands[i] = str THEN cands ELSE Append(cands, str)

\* std::set::insert: no effect if the key is present, else the key is placed
\* at its position in the order
SetInsert(cands, str) ==
    IF \E i \in DOMAIN cands : cands[i] = str
    THEN cands
    ELSE LET k == Cardinality({i \in DOMAIN cands : string_less(cands[i], str)})
         IN  SubSeq(cands, 1, k) \o <<str>> \o SubSeq(cands, k + 1, Len(cands))

RECURSIVE InsertAll(_, _)
\* a run of consecutive candidates.insert(...) statements, in source order
\* (Len(cands) is read first, so that each insert is evaluated before the next)
InsertAll(cands, strs) ==
    IF Len(cands) >= 0 /\ strs # <<>>
    THEN InsertAll(SetInsert(cands, Head(strs)), Tail(strs))
    ELSE cands

(***************************************************************************)
(* generate_target_combinations                                            *)
(***************************************************************************)
\* {"2023", "2024", "2025", "!", "1", "123", "#"}
common_suffixes ==
    << <<50, 48, 50, 51>>, <<50, 48, 50, 52>>, <<50, 48, 50, 53>>,
       <<33>>, <<49>>, <<49, 50, 51>>, <<35>> >>

\* std::toupper in the "C" locale
toupper(c) == IF c >= 97 /\ c <= 122 THEN c - 32 ELSE c

\* bug variant: the whole word is upper-cased
CapitalizedAll(w) == [i \in DOMAIN w |-> toupper(w[i])]

\* cap_base / cap_info: a copy with the first byte upper-cased, if there is one
Capitalized(w) ==
    IF w # <<>> THEN [w EXCEPT ![1] = toupper(w[1])] ELSE w

\* bug variant: the fourth suffixed pattern repeats the second one
SuffixBodyCopyPaste(base, info, suffix, cands) ==
    LET cap_info == Capitalized(info)
        cap_base == Capitalized(base)
    IN  InsertAll(cands,
          << base \o info \o suffix,
             info \o base \o suffix,
             base \o suffix \o info,
             info \o base \o suffix,
             cap_base \o cap_info,
             cap_info \o cap_base,
             cap_base \o info,
             info \o cap_base,
             cap_base \o cap_info \o suffix,
             cap_info \o cap_base \o suffix,
             cap_base \o info \o suffix,
             info \o cap_base \o suffix >>)

\* body of the loop over common_suffixes inside the loop over target_info
SuffixBody(base, info, suffix, cands) ==
    LET cap_info == Capitalized(info)
        cap_base == Capitalized(base)
    IN  InsertAll(cands,
          << base \o info \o suffix,
             info \o base \o suffix,
             base \o suffix \o info,
             info \o suffix \o base,
             cap_base \o cap_info,
             cap_info \o cap_base,
             cap_base \o info,
             info \o cap_base,
             cap_base \o cap_info \o suffix,
             cap_info \o cap_base \o suffix,
             cap_base \o info \o suffix,
             info \o cap_base \o suffix >>)

RECURSIVE SuffixLoop(_, _, _, _)
\* for (suffix : common_suffixes), from the k-th suffix on
SuffixLoop(base, info, k, cands) ==
    IF k > Len(common_suffixes) THEN cands
    ELSE SuffixLoop(base, info, k + 1,
                    SuffixBody(base, info, common_suffixes[k], cands))

\* body of the loop over target_info
InfoBody(base, info, cands) ==
    IF ~is_printable(info) \/ info = <<>> THEN cands
    ELSE SuffixLoop(base, info, 1,
                    InsertAll(cands, <<base \o info, info \o base>>))

RECURSIVE InfoLoop(_, _, _, _)
\* for (info : target_info), from the k-th entry on
InfoLoop(base, infos, k, cands) ==
    IF k > Len(infos) THEN cands
    ELSE InfoLoop(base, infos, k + 1, InfoBody(base, infos[k], cands))

RECURSIVE BaseSuffixLoop(_, _, _)
\* the second loop over common_suffixes: base + suffix, cap_base + suffix
BaseSuffixLoop(base, k, cands) ==
    IF k > Len(common_suffixes) THEN cands
    ELSE BaseSuffixLoop(base, k + 1,
             InsertAll(cands, << base \o common_suffixes[k],
                                 Capitalized(base) \o common_suffixes[k] >>))

\* body of the loop over base_words
BaseBody(base, infos, cands) ==
    IF ~is_printable(base) \/ base = <<>> THEN cands
    ELSE BaseSuffixLoop(base, 1,
             InfoLoop(base, infos, 1, SetInsert(cands, base)))

(***************************************************************************)
(* apply_leetspeak                                                         *)
(***************************************************************************)
\* std::replace(first, last, old_value, new_value)
Replace(str, old, new) == [i \in DOMAIN str |-> IF str[i] = old THEN new ELSE str[i]]

\* bug variant: the rules of the function's comment, without t/T
LeetRulesNoT ==
    << <<101, 51>>, <<69, 51>>, <<97, 64>>, <<65, 64>>, <<111, 48>>, <<79, 48>>,
       <<115, 36>>, <<83, 36>>, <<105, 49>>, <<73, 49>> >>

\* bug variant: 'S' is replaced by 's' instead of '$'
LeetRulesTypo ==
    << <<101, 51>>, <<69, 51>>, <<97, 64>>, <<65, 64>>, <<111, 48>>, <<79, 48>>,
       <<115, 36>>, <<83, 115>>, <<105, 49>>, <<73, 49>>, <<116, 55>>, <<84, 55>> >>

\* the twelve std::replace calls, in order: e E -> 3, a A -> @, o O -> 0,
\* s S -> $, i I -> 1, t T -> 7
LeetRules ==
    << <<101, 51>>, <<69, 51>>, <<97, 64>>, <<65, 64>>, <<111, 48>>, <<79, 48>>,
       <<115, 36>>, <<83, 36>>, <<105, 49>>, <<73, 49>>, <<116, 55>>, <<84, 55>> >>

RECURSIVE ReplaceFrom(_, _)
\* the replacements from the k-th on, applied one after the other
ReplaceFrom(str, k) ==
    IF k > Len(LeetRules) THEN str
    ELSE ReplaceFrom(Replace(str, LeetRules[k][1], LeetRules[k][2]), k + 1)

\* leet_word after the twelve replacements
leet_word(w) == ReplaceFrom(w, 1)

\* bug variant: the word is replaced by its leetspeak version
LeetBodyInPlace(w, cands) ==
    IF ~is_printable(w) \/ w = <<>> THEN cands
    ELSE IF leet_word(w) # w
         THEN SetInsert(SelectSeq(cands, LAMBDA c : c # w), leet_word(w))
         ELSE SetInsert(cands, w)

\* body of the loop over input_words
LeetBody(w, cands) ==
    IF ~is_printable(w) \/ w = <<>> THEN cands
    ELSE LET c1 == SetInsert(cands, w)
         IN  IF leet_word(w) # w THEN SetInsert(c1, leet_word(w)) ELSE c1

\* the word the k-th iteration of the loop receives
LeetInput(input_words, cands, k) == input_words[k]

(***************************************************************************)
(* main                                                                    *)
(***************************************************************************)
RECURSIVE InitLoop(_, _, _)
\* the loop that inserts the printable, non-empty base words
InitLoop(words, k, cands) ==
    IF k > Len(words) THEN cands
    ELSE InitLoop(words, k + 1,
                  IF is_printable(words[k]) /\ words[k] # <<>>
                  THEN SetInsert(cands, words[k]) ELSE cands)

\* load_file_lines keeps the non-empty lines of a file, in order
Init ==
    /\ base_words \in SeqsUpTo(BaseVocab, MaxBase)
    /\ target_info \in SeqsUpTo(InfoVocab, MaxInfo)
    /\ generated_candidates = <<>>
    /\ current_candidates_vec = <<>>
    /\ gen_pos = 1
    /\ leet_pos = 1
    /\ word = <<>>
    /\ pass = 0
    /\ output = <<>>
    /\ pc = "start"
    /\ s = <<>>
    /\ ret = FALSE

\* if (base_words.empty()) return 1;
MainEmptyBase ==
    /\ pc = "start"
    /\ base_words = <<>>
    /\ pc' = "exit"
    /\ UNCHANGED <<base_words, target_info, generated_candidates,
                   current_candidates_vec, gen_pos, leet_pos, word, pass,
                   output, s, ret>>

\* step 1: the set is created empty and the usable base words are inserted
MainInitCandidates ==
    /\ pc = "start"
    /\ base_words # <<>>
    /\ generated_candidates' = InitLoop(base_words, 1, <<>>)
    /\ pc' = "combine"
    /\ UNCHANGED <<base_words, target_info, current_candidates_vec, gen_pos,
                   leet_pos, word, pass, output, s, ret>>

\* step 2 is skipped when target_info is empty
MainSkipCombinations ==
    /\ pc = "combine"
    /\ target_info = <<>>
    /\ pc' = "snapshot"
    /\ UNCHANGED <<base_words, target_info, generated_candidates,
                   current_candidates_vec, gen_pos, leet_pos, word, pass,
                   output, s, ret>>

\* generate_target_combinations: one iteration of the loop over base_words
GenerateStep ==
    /\ pc = "combine"
    /\ target_info # <<>>
    /\ gen_pos <= Len(base_words)
    /\ generated_candidates' =
           BaseBody(base_words[gen_pos], target_info, generated_candidates)
    /\ gen_pos' = gen_pos + 1
    /\ UNCHANGED <<base_words, target_info, current_candidates_vec, leet_pos,
                   word, pass, output, pc, s, ret>>

\* generate_target_combinations returns
GenerateDone ==
    /\ pc = "combine"
    /\ target_info # <<>>
    /\ gen_pos > Len(base_words)
    /\ pc' = "snapshot"
    /\ UNCHANGED <<base_words, target_info, generated_candidates,
                   current_candidates_vec, gen_pos, leet_pos, word, pass,
                   output, s, ret>>

\* step 3: the set is copied to a vector and apply_leetspeak is called on it
MainSnapshot ==
    /\ pc = "snapshot"
    /\ current_candidates_vec' = generated_candidates
    /\ leet_pos' = 1
    /\ pass' = pass + 1
    /\ pc' = "leet"
    /\ UNCHANGED <<base_words, target_info, generated_candidates, gen_pos,
                   word, output, s, ret>>

\* apply_leetspeak: one iteration of the loop over input_words
LeetStep ==
    /\ pc = "leet"
    /\ leet_pos <= Len(current_candidates_vec)
    /\ word' = LeetInput(current_candidates_vec, generated_candidates, leet_pos)
    /\ generated_candidates' = LeetBody(word', generated_candidates)
    /\ leet_pos' = leet_pos + 1
    /\ UNCHANGED <<base_words, target_info, current_candidates_vec, gen_pos,
                   pass, output, pc, s, ret>>

\* bug variant: the pass is repeated on its own output until nothing is added
LeetDoneFixpoint ==
    /\ pc = "leet"
    /\ leet_pos > Len(current_candidates_vec)
    /\ IF generated_candidates # current_candidates_vec
       THEN /\ current_candidates_vec' = generated_candidates
            /\ leet_pos' = 1
            /\ pass' = pass + 1
            /\ pc' = "leet"
       ELSE /\ pc' = "output"
            /\ UNCHANGED <<current_candidates_vec, leet_pos, pass>>
    /\ UNCHANGED <<base_words, target_info, generated_candidates, gen_pos,
                   word, output, s, ret>>

\* apply_leetspeak returns
LeetDone ==
    /\ pc = "leet"
    /\ leet_pos > Len(current_candidates_vec)
    /\ pc' = "output"
    /\ UNCHANGED <<base_words, target_info, generated_candidates,
                   current_candidates_vec, gen_pos, leet_pos, word, pass,
                   output, s, ret>>

\* the set is written to stdout in iteration order, one candidate per line
MainOutput ==
    /\ pc = "output"
    /\ output' = generated_candidates
    /\ pc' = "done"
    /\ UNCHANGED <<base_words, target_info, generated_candidates,
                   current_candidates_vec, gen_pos, leet_pos, word, pass, s, ret>>

Next ==
    \/ MainEmptyBase
    \/ MainInitCandidates
    \/ MainSkipCombinations
    \/ GenerateStep
    \/ GenerateDone
    \/ MainSnapshot
    \/ LeetStep
    \/ LeetDone
    \/ MainOutput

Spec == Init /\ [][Next]_vars

(***************************************************************************)
(* A second call of apply_leetspeak on the whole set, after the call of    *)
(* main has returned.                                                      *)
(***************************************************************************)
SecondPass ==
    /\ pc = "output"
    /\ pass = 1
    /\ current_candidates_vec' = generated_candidates
    /\ leet_pos' = 1
    /\ pass' = 2
    /\ pc' = "leet"
    /\ UNCHANGED <<base_words, target_info, generated_candidates, gen_pos,
                   word, output, s, ret>>

NextTwice ==
    \/ MainEmptyBase
    \/ MainInitCandidates
    \/ MainSkipCombinations
    \/ GenerateStep
    \/ GenerateDone
    \/ MainSnapshot
    \/ LeetStep
    \/ LeetDone
    \/ SecondPass

SpecTwice == Init /\ [][NextTwice]_vars

(***************************************************************************)
(* Direct calls of is_printable, and of the test the callers make of a     *)
(* word, on arbitrary byte strings.                                        *)
(***************************************************************************)
InitPure ==
    /\ s \in Args
    /\ ret = FALSE
    /\ pc = "call"
    /\ base_words = <<>>
    /\ target_info = <<>>
    /\ generated_candidates = <<>>
    /\ current_candidates_vec = <<>>
    /\ gen_pos = 1
    /\ leet_pos = 1
    /\ word = <<>>
    /\ pass = 0
    /\ output = <<>>

CallIsPrintable ==
    /\ pc = "call"
    /\ ret' = is_printable(s)
    /\ pc' = "is_printable"
    /\ UNCHANGED <<base_words, target_info, generated_candidates,
                   current_candidates_vec, gen_pos, leet_pos, word, pass,
                   output, s>>

CallUsableWord ==
    /\ pc = "call"
    /\ ret' = usable_word(s)
    /\ pc' = "usable_word"
    /\ UNCHANGED <<base_words, target_info, generated_candidates,
                   current_candidates_vec, gen_pos, leet_pos, word, pass,
                   output, s>>

NextPure == CallIsPrintable \/ CallUsableWord

SpecPure == InitPure /\ [][NextPure]_vars

(***************************************************************************)
(* The vocabulary of the properties, stated apart from the operators above *)
(***************************************************************************)
\* a word is usable if it is non-empty and every byte is in 0x20..0x7E
Usable(w) == w # <<>> /\ \A i \in DOMAIN w : w[i] \in 32..126

UsableBase == {w \in SetOf(base_words) : Usable(w)}

UsableInfo == {w \in SetOf(target_info) : Usable(w)}

SuffixSet == SetOf(common_suffixes)

\* Cap: the first character upper-cased, the rest unchanged
Cap(w) == [i \in DOMAIN w |-> IF i = 1 /\ w[i] \in 97..122 THEN w[i] - 32 ELSE w[i]]

\* the substitution table, one character at a time
SubstChar(c) ==
    CASE c \in {101, 69} -> 51
      [] c \in {97, 65} -> 64
      [] c \in {111, 79} -> 48
      [] c \in {115, 83} -> 36
      [] c \in {105, 73} -> 49
      [] c \in {116, 84} -> 55
      [] OTHER -> c

\* L: every character substituted simultaneously
L(w) == [i \in DOMAIN w |-> SubstChar(w[i])]

RECURSIVE LexLess(_, _)
\* byte-wise lexicographic order
LexLess(a, b) ==
    IF b = <<>> THEN FALSE
    ELSE IF a = <<>> THEN TRUE
    ELSE IF Head(a) # Head(b) THEN Head(a) < Head(b)
    ELSE LexLess(Tail(a), Tail(b))

\* the shapes the Combination Generator builds from b, t and x
Shapes(b, t, x) ==
    { b, b \o t, t \o b,
      b \o t \o x, t \o b \o x, b \o x \o t, t \o x \o b,
      Cap(b) \o Cap(t), Cap(t) \o Cap(b), Cap(b) \o t, t \o Cap(b),
      Cap(b) \o Cap(t) \o x, Cap(t) \o Cap(b) \o x,
      Cap(b) \o t \o x, t \o Cap(b) \o x,
      b \o x, Cap(b) \o x }

\* the shapes of the completeness property, with and without t itself
CompleteShapes(b, t, x) ==
    { b, b \o t, t \o b, b \o t \o x, t \o b \o x,
      Cap(b) \o t, t \o Cap(b), Cap(b) \o Cap(t), Cap(t) \o Cap(b),
      b \o x, Cap(b) \o x }

\* "Blue", "Acme", "2024", "$3cr37"
Blue == <<66, 108, 117, 101>>

Acme == <<65, 99, 109, 101>>

y2024 == <<50, 48, 50, 52>>

Dollar3cr37 == <<36, 51, 99, 114, 51, 55>>

BlueAcmeExample ==
    { blue, blue \o acme, acme \o blue, blue \o acme \o y2024,
      acme \o blue \o y2024, Blue \o acme, acme \o Blue, Blue \o Acme,
      Acme \o Blue, blue \o y2024, Blue \o y2024 }

(***************************************************************************)
(* C1                                                                      *)
(***************************************************************************)
\* C1: when generate_target_combinations has returned and there is at least
\* one usable target-info word, the members of the set are exactly the
\* strings of the seventeen shapes, over every usable base word b, usable
\* target-info word t and suffix x.
C1_CombinationShapes ==
    (pc = "snapshot" /\ UsableInfo # {}) =>
        SetOf(generated_candidates) =
            UNION {Shapes(p[1], p[2], p[3]) :
                       p \in UsableBase \X UsableInfo \X SuffixSet}

C1_Witness ==
    /\ pc = "snapshot"
    /\ UsableInfo # {}
    /\ Cardinality(UsableBase) = 2
    /\ Len(generated_candidates) > 100

(***************************************************************************)
(* C2                                                                      *)
(***************************************************************************)
\* C2 (as claimed): in a run with an empty target-info list, the collection
\* handed to apply_leetspeak holds b, b+x and Cap(b)+x for every usable base
\* word b and every suffix x, and nothing else.
C2_EmptyTargetInfoSuffixes ==
    (pc = "leet" /\ leet_pos = 1 /\ target_info = <<>>) =>
        SetOf(current_candidates_vec) =
            UNION {{p[1], p[1] \o p[2], Cap(p[1]) \o p[2]} :
                       p \in UsableBase \X SuffixSet}

C4_StrictlyIncreasing ==
    (pc = "done") =>
        /\ \A i \in 1..(Len(output) - 1) : LexLess(output[i], output[i + 1])
        /\ Cardinality(SetOf(output)) = Len(output)

\* a run in which the same base word was given twice and the transformer
\* added strings that sort before strings added earlier
C4_Witness ==
    /\ pc = "done"
    /\ Len(base_words) = 2
    /\ base_words[1] = base_words[2]
    /\ Len(output) > Len(current_candidates_vec)
    /\ Len(current_candidates_vec) > 50

(***************************************************************************)
(* C5                                                                      *)
(***************************************************************************)
\* C5 (as claimed): the final snapshot holds, for every usable b, usable t
\* and suffix x, the word t itself besides b, b+t, t+b, b+t+x, t+b+x,
\* Cap(b)+t, t+Cap(b), Cap(b)+Cap(t), Cap(t)+Cap(b), b+x and Cap(b)+x.
C5_CompletenessWithInfoWord ==
    (pc = "done") =>
        \A b \in UsableBase : \A t \in UsableInfo : \A x \in SuffixSet :
            CompleteShapes(b, t, x) \cup {t} \subseteq SetOf(output)

\* C5 (amended): the final snapshot holds, for every usable b, usable t and
\* suffix x, the strings b, b+t, t+b, b+t+x, t+b+x, Cap(b)+t, t+Cap(b),
\* Cap(b)+Cap(t), Cap(t)+Cap(b), b+x and Cap(b)+x; for B = ["blue"],
\* T = ["acme"] these include blue, blueacme, acmeblue, blueacme2024,
\* acmeblue2024, Blueacme, acmeBlue, BlueAcme, AcmeBlue, blue2024, Blue2024.
C5_Completeness ==
    (pc = "done") =>
        /\ \A b \in UsableBase : \A t \in UsableInfo : \A x \in SuffixSet :
               CompleteShapes(b, t, x) \subseteq SetOf(output)
        /\ (base_words = <<blue>> /\ target_info = <<acme>>) =>
               BlueAcmeExample \subseteq SetOf(output)

C5_Witness ==
    /\ pc = "done"
    /\ base_words = <<blue>>
    /\ target_info = <<acme>>
    /\ BlueAcmeExample \subseteq SetOf(output)
    /\ acme \notin SetOf(output)

(***************************************************************************)
(* C6                                                                      *)
(***************************************************************************)
\* C6: apply_leetspeak is called once in a run, after
\* generate_target_combinations has returned, on the copy of the set taken
\* at the call; every word an iteration receives is a word of that copy,
\* which is the set as it was before the pass, and the set never holds more
\* than twice as many members as the copy.
C6_OneShot ==
    (pc \in {"leet", "output", "done"}) =>
        /\ pass = 1
        /\ target_info # <<>> => gen_pos = Len(base_words) + 1
        /\ leet_pos = 1 => current_candidates_vec = generated_candidates
        /\ leet_pos > 1 => word \in SetOf(current_candidates_vec)
        /\ SetOf(current_candidates_vec) \subseteq SetOf(generated_candidates)
        /\ Len(generated_candidates) <= 2 * Len(current_candidates_vec)

\* the pass has ended and has added a variant for some but not all words
C6_Witness ==
    /\ pc = "output"
    /\ target_info # <<>>
    /\ Len(generated_candidates) > Len(current_candidates_vec)
    /\ Len(generated_candidates) < 2 * Len(current_candidates_vec)

(***************************************************************************)
(* C7                                                                      *)
(***************************************************************************)
\* C7: no step of a second pass over the whole set, the output of the first
\* pass included, changes the set, and the variant of the variant of the
\* word a step receives is its variant.
C7_SecondPassAddsNothing ==
    /\ [][pass' = 2 => generated_candidates' = generated_candidates]_vars
    /\ [](pass = 2 /\ leet_pos > 1 =>
              /\ leet_word(leet_word(word)) = leet_word(word)
              /\ leet_word(word) \in SetOf(current_candidates_vec))

\* the second pass has ended, and it went over a variant the first pass added
C7_Witness ==
    /\ pass = 2
    /\ pc = "output"
    /\ \E v, w \in SetOf(current_candidates_vec) : v # w /\ leet_word(v) = w

(***************************************************************************)
(* C8                                                                      *)
(***************************************************************************)
\* C8: the set starts empty, no step of a run removes a member, and every
\* usable base word is in the final snapshot.
C8_InsertionOnly ==
    /\ generated_candidates = <<>>
    /\ [][SetOf(generated_candidates) \subseteq SetOf(generated_candidates')]_vars
    /\ [](pc = "done" => UsableBase \subseteq SetOf(output))

C8_Witness ==
    /\ pc = "done"
    /\ Cardinality(UsableBase) = 2
    /\ Len(output) > Len(current_candidates_vec)

(***************************************************************************)
(* C10                                                                     *)
(***************************************************************************)
\* C10 (as claimed): is_printable returns false if s is empty or holds a
\* character outside the printable range, and true otherwise.
C10_EmptyIsNotPrintable ==
    (pc = "is_printable") => (ret = Usable(s))

\* C10 (amended): is_printable returns false if s holds a character outside
\* the printable range and true otherwise, so true for the empty string; the
\* test the callers make, is_printable(s) && !s.empty(), is false if s is
\* empty or holds a character outside the printable range, and true
\* otherwise.
C10_IsPrintable ==
    /\ (pc = "is_printable") => (ret = (\A i \in DOMAIN s : s[i] \in 32..126))
    /\ (pc = "is_printable" /\ s = <<>>) => ret
    /\ (pc = "usable_word") => (ret = Usable(s))

C10_Witness ==
    /\ pc = "is_printable"
    /\ s = <<>>
    /\ ret

====
